---- MODULE Spec2Model ----
(***************************************************************************)
(* rkbeets: reconciliation of a beets catalog with a rekordbox xml export. *)
(* Model of beetsplug/rkbeets/__init__.py: DimensionsDB (field mapping),   *)
(* Libraries (loaders, crop, get_sync_changed) and the rkb-diff / rkb-sync *)
(* commands.  Tables are sequences of rows, a cell is an optional value    *)
(* (NULL or Some(x)), a path is a tuple of code points.                    *)
(***************************************************************************)
EXTENDS Integers, Sequences, FiniteSets, TLC

VARIABLES
    ddb,               \* DimensionsDB._df: the field mapping table
    lib,               \* the stored beets catalog (sequence of items)
    xml,               \* tracks of the rekordbox xml file
    music_directory,   \* config['directory']
    query,             \* command line query given to lib.items
    dry_run,           \* opts.dry_run
    cmd,               \* command being run
    pc,                \* position inside the command
    cl,                \* ComputedLibraries returned by crop
    report,            \* the three counts printed by rkb-diff
    df_sync_changed,   \* change set returned by get_sync_changed
    k,                 \* rows of the change set processed so far
    missing,           \* opts.missing of rkb-export
    df_export,         \* table returned by get_export_df
    outxml,            \* tracks of the xml file written by export_df
    rekordbox_file,    \* config['rekordbox_file']: what the path names
    export_file,       \* config['export_file']: what the path names
    loaded,            \* the tables the running command has loaded
    pairs              \* the FieldPairs get_sync_pairs has yielded to its caller

vars == <<ddb, lib, xml, music_directory, query, dry_run, cmd, pc, cl,
          report, df_sync_changed, k, missing, df_export, outxml,
          rekordbox_file, export_file, loaded, pairs>>

----------------------------------------------------------------------------
(* Bounds *)

MaxItems == 2
MaxTracks == 2
MaxRows == 3

----------------------------------------------------------------------------
(* Optional values and generic sequence helpers *)

NULL == <<>>
Some(x) == <<x>>
Get(o) == o[1]

RECURSIVE Flatten(_)
Flatten(ss) ==
    IF ss = <<>> THEN <<>> ELSE Head(ss) \o Flatten(Tail(ss))

Map(f(_), s) == [n \in 1..Len(s) |-> f(s[n])]

Range(s) == {s[n] : n \in 1..Len(s)}

\* first-appearance de-duplication (pandas Index.unique)
RECURSIVE UniqueSeq(_)
UniqueSeq(s) ==
    IF s = <<>> THEN <<>>
    ELSE LET r == UniqueSeq(SubSeq(s, 1, Len(s) - 1))
             x == s[Len(s)]
         IN  IF x \in Range(r) THEN r ELSE Append(r, x)

SeqsUpTo(S, n) == UNION {[1..m -> S] : m \in 0..n}

----------------------------------------------------------------------------
(* Strings: str.normalize('NFD'), str.lower, str.startswith              *)
(* Code points: "e^" is the precomposed e-acute, "E^" its capital, "^"     *)
(* the combining acute accent.                                             *)

Decompose(c) ==
    CASE c = "e^" -> <<"e", "^">>
      [] c = "E^" -> <<"E", "^">>
      [] OTHER    -> <<c>>

NFD(s) == Flatten(Map(Decompose, s))

LowerChar(c) ==
    CASE c = "A"  -> "a"
      [] c = "E"  -> "e"
      [] c = "M"  -> "m"
      [] c = "O"  -> "o"
      [] c = "E^" -> "e^"
      [] OTHER    -> c

Lower(s) == Map(LowerChar, s)

StartsWith(s, prefix) ==
    /\ Len(prefix) <= Len(s)
    /\ SubSeq(s, 1, Len(prefix)) = prefix

\* the join key without the normalization to NFD
NormalizeLower_NoNFD(s) == Lower(s)

\* index = df[...].str.normalize('NFD').str.lower()
NormalizeLower(s) == Lower(NFD(s))

----------------------------------------------------------------------------
(* pandas dtypes: the value dtype.type() builds, and NA behaviour          *)

\* dtype.type(): np.object_() is None, str() is '', np.int64() / np.float64() is 0
TypeDefault(dtype) ==
    CASE dtype = "string" -> Some("")
      [] dtype = "Int64"  -> Some(0)
      [] dtype = "float"  -> Some(0)
      [] OTHER            -> NULL

\* the masked extension dtypes propagate NA through comparisons; a numpy
\* float column holds NaN, and NaN != x is True
PropagatesNA(dtype) == dtype \in {"string", "Int64"}

Fillna(v, default) == IF v = NULL THEN default ELSE v

\* values a cell of the given dtype is drawn from
NonNullValues(dtype) ==
    CASE dtype = "string" -> {"", "x"}
      [] OTHER            -> {0, 1}

----------------------------------------------------------------------------
(* DimensionsDB: rows of rkbeets-fields.csv; NULL is an empty csv cell      *)

Row(bf, bt, rf, rt, ne, sy, cv) ==
    [beets_field |-> bf, beets_type |-> bt, rkb_field |-> rf, rkb_type |-> rt,
     no_export |-> ne, sync |-> sy, convert_to_rkb |-> cv]

IdRow == Row(Some("id"), Some("Int64"), NULL, NULL, Some(TRUE), NULL, NULL)
PathRow == Row(Some("path"), Some("object"), Some("Location"), Some("string"),
               NULL, NULL, NULL)
RatingRow == Row(Some("rating"), Some("Int64"), Some("Rating"), Some("Int64"),
                 NULL, Some(TRUE), NULL)
MixRow == Row(Some("rkb_Mix"), Some("string"), Some("Mix"), Some("string"),
              Some(TRUE), Some(TRUE), NULL)
BpmRow == Row(Some("rkb_AverageBpm"), Some("float"), Some("AverageBpm"),
              Some("float"), Some(TRUE), Some(TRUE), NULL)

DDB_Paths == <<IdRow, PathRow>>
DDB_Rating == <<IdRow, PathRow, RatingRow>>
DDB_Bpm == <<IdRow, PathRow, BpmRow>>
DDB_RatingMix == <<IdRow, PathRow, RatingRow, MixRow>>

\* df[['beets_field', 'beets_type']].dropna()
get_beets_cols(d) ==
    Map(LAMBDA r : [field |-> Get(r.beets_field), dtype |-> Get(r.beets_type)],
        SelectSeq(d, LAMBDA r : r.beets_field # NULL /\ r.beets_type # NULL))

\* df[['rkb_field', 'rkb_type']].dropna()
get_rkb_cols(d) ==
    Map(LAMBDA r : [field |-> Get(r.rkb_field), dtype |-> Get(r.rkb_type)],
        SelectSeq(d, LAMBDA r : r.rkb_field # NULL /\ r.rkb_type # NULL))

\* df[df['sync'].fillna(False)][['beets_field', 'rkb_field']]
get_sync_pairs(d) ==
    Map(LAMBDA r : [beets |-> r.beets_field, rkb |-> r.rkb_field],
        SelectSeq(d, LAMBDA r : Get(Fillna(r.sync, Some(FALSE)))))

\* pandas.read_csv(path) without index_col: the table gets a RangeIndex, the
\* n-th row has the label n - 1
RangeIndex(d) == [n \in 1..Len(d) |-> n - 1]

\* Index.has_duplicates
has_duplicates(index) ==
    \E m, n \in 1..Len(index) : m # n /\ index[m] = index[n]

\* DimensionsDB.__init__ raises RuntimeError
DimensionsDB_raises(d) == has_duplicates(RangeIndex(d))

BeetsFields(d) == {c.field : c \in Range(get_beets_cols(d))}
RkbFields(d) == {c.field : c \in Range(get_rkb_cols(d))}

BeetsDtype(d, f) == (CHOOSE c \in Range(get_beets_cols(d)) : c.field = f).dtype
RkbDtype(d, f) == (CHOOSE c \in Range(get_rkb_cols(d)) : c.field = f).dtype

----------------------------------------------------------------------------
(* Libraries: the two tables.  A table is a sequence of rows               *)
(* [index |-> join key, data |-> column name -> cell].                     *)

\* lib.items(query): no query (NULL) selects every item, Some(n) is "id:n"
items(l, q) ==
    IF q = NULL THEN l
    ELSE SelectSeq(l, LAMBDA it : it["id"] = q)

\* one Series per beets column (i.get(field)), indexed by the decoded,
\* NFD-normalized, lower-cased path
df_beets(d, l, q) ==
    Map(LAMBDA it :
            [index |-> NormalizeLower(Get(it["path"])),
             data  |-> [f \in BeetsFields(d) |-> it[f]]],
        items(l, q))

beets_track_count(d, l, q) == Len(df_beets(d, l, q))

\* '/' + df['Location']
PrependSlash(s) == <<"/">> \o s

\* one Series per rekordbox column (t[field]); '/' is prepended to Location
\* before the index is taken from it
df_rbxml(d, x) ==
    Map(LAMBDA t :
            LET Location == PrependSlash(Get(t["Location"]))
            IN  [index |-> NormalizeLower(Location),
                 data  |-> [f \in RkbFields(d) |->
                               IF f = "Location" THEN Some(Location) ELSE t[f]]],
        x)

Index(df) == Map(LAMBDA r : r.index, df)

\* the symmetric difference taken for the difference
IndexDifference_Symmetric(a, b) ==
    (Range(Index(a)) \ Range(Index(b))) \cup (Range(Index(b)) \ Range(Index(a)))

\* Index.difference / Index.intersection return unique labels
IndexDifference(a, b) == Range(Index(a)) \ Range(Index(b))

IndexIntersection(a, b) ==
    SelectSeq(UniqueSeq(Index(a)), LAMBDA key : key \in Range(Index(b)))

\* df.loc[labels]: every row carrying each label, label by label
Loc(df, labels) ==
    Flatten(Map(LAMBDA key : SelectSeq(df, LAMBDA r : r.index = key), labels))

\* left.join(right) on the index: one row per matching pair of rows
Join(left, right) ==
    Flatten(Map(LAMBDA l :
                    Map(LAMBDA r : [index |-> l.index, data |-> l.data @@ r.data],
                        SelectSeq(right, LAMBDA r : r.index = l.index)),
                left))

\* the rows of df_rbxml that crop keeps for the given music directory
RootFiltered(df_r, music_dir) ==
    IF music_dir # NULL /\ Get(music_dir) # <<>>
    THEN SelectSeq(df_r, LAMBDA r : StartsWith(r.index, Lower(Get(music_dir))))
    ELSE df_r

crop(df_b, df_rb, music_dir) ==
    LET df_r == RootFiltered(df_rb, music_dir)
        intersection == IndexIntersection(df_r, df_b)
    IN  [df_common  |-> Join(Loc(df_b, intersection), Loc(df_r, intersection)),
         only_beets |-> IndexDifference(df_b, df_r),
         only_rbxml |-> IndexDifference(df_r, df_b)]

----------------------------------------------------------------------------
(* Libraries.get_sync_changed                                              *)

\* the comparison without the fillna of the beets column
ne_NoFill(ltype, rtype, l, r) ==
    IF l = NULL \/ r = NULL
    THEN IF PropagatesNA(ltype) \/ PropagatesNA(rtype) THEN NULL ELSE Some(TRUE)
    ELSE Some(Get(l) # Get(r))

\* l.fillna(l.dtype.type()) != r, element-wise: Some(TRUE), Some(FALSE) or
\* NULL (pandas.NA) when a masked dtype meets a missing value
ne(ltype, rtype, l, r) ==
    LET lf == Fillna(l, TypeDefault(ltype))
    IN  IF lf = NULL \/ r = NULL
        THEN IF PropagatesNA(ltype) \/ PropagatesNA(rtype) THEN NULL ELSE Some(TRUE)
        ELSE Some(Get(lf) # Get(r))

\* operator.or_ on boolean columns (Kleene logic on NA)
or_(a, b) ==
    IF a = Some(TRUE) \/ b = Some(TRUE) THEN Some(TRUE)
    ELSE IF a = NULL \/ b = NULL THEN NULL
    ELSE Some(FALSE)

RECURSIVE reduce_or(_)
reduce_or(compares) ==
    IF Len(compares) = 1 THEN compares[1]
    ELSE or_(reduce_or(SubSeq(compares, 1, Len(compares) - 1)),
             compares[Len(compares)])

\* the mask cell of one row of df_common
Mask(d, row) ==
    reduce_or(Map(LAMBDA cols :
                      ne(BeetsDtype(d, Get(cols.beets)), RkbDtype(d, Get(cols.rkb)),
                         row.data[Get(cols.beets)], row.data[Get(cols.rkb)]),
                  get_sync_pairs(d)))

\* df_common[mask]: a row is kept where the mask is True (NA selects nothing)
Selected(d, df_common) == SelectSeq(df_common, LAMBDA row : Mask(d, row) = Some(TRUE))

\* the rekordbox column without the fillna
transform_column_NoFill(d, cols, row) == row.data[Get(cols.rkb)]

\* df_changed[cols.rkb].fillna(df_common[cols.beets].dtype.type())
transform_column(d, cols, row) ==
    Fillna(row.data[Get(cols.rkb)], TypeDefault(BeetsDtype(d, Get(cols.beets))))

SyncBeetsFields(d) == {Get(cols.beets) : cols \in Range(get_sync_pairs(d))}

PairOf(d, f) == CHOOSE cols \in Range(get_sync_pairs(d)) : Get(cols.beets) = f

\* the change set: one row per selected row, indexed by the beets id
get_sync_changed(d, df_common) ==
    Map(LAMBDA row :
            [Index |-> Get(row.data["id"]),
             data  |-> [f \in SyncBeetsFields(d) |->
                           transform_column(d, PairOf(d, f), row)]],
        Selected(d, df_common))

----------------------------------------------------------------------------
(* DimensionsDB.get_export_conversion_info, Libraries.get_export_df and    *)
(* export_df.  A frame is [columns, rows]: columns is a sequence of        *)
(* [name, dtype], a row is [index, cells] with one cell per column.        *)

format_to_kind(format) ==
    CASE format = "AAC" -> "M4A File"
      [] format = "MP3" -> "MP3 File"
      [] format = "WAV" -> "WAV File"
      [] OTHER          -> format

\* xform.get(row.convert_to_rkb): the only entry is 'format_to_kind'
xform_get(convert_to_rkb) ==
    IF convert_to_rkb = Some("format_to_kind") THEN Some("format_to_kind") ELSE NULL

\* func(value) for a func taken from xform
Call(func, value) ==
    IF func = "format_to_kind" THEN format_to_kind(value) ELSE value

get_export_conversion_info(d) ==
    LET no_export(r) == Get(Fillna(r.no_export, Some(FALSE)))
    IN  [drop_fields |->
             Map(LAMBDA r : Get(r.beets_field),
                 SelectSeq(d, LAMBDA r : no_export(r) /\ r.beets_field # NULL)),
         export_fields |->
             Map(LAMBDA r : [beets |-> Get(r.beets_field), rkb |-> Get(r.rkb_field),
                             func |-> xform_get(r.convert_to_rkb)],
                 SelectSeq(d, LAMBDA r : /\ ~no_export(r)
                                         /\ r.beets_field # NULL
                                         /\ r.rkb_field # NULL))]

\* export_fields is a generator expression: what it yields once it has
\* been iterated to its end
Consumed(generator) == SubSeq(generator, Len(generator) + 1, Len(generator))

\* the beets table as a frame: one column per key of series_data, in the
\* order of get_beets_cols
Frame(d, df_b) ==
    LET names == UniqueSeq(Map(LAMBDA c : c.field, get_beets_cols(d)))
    IN  [columns |-> Map(LAMBDA f : [name |-> f, dtype |-> BeetsDtype(d, f)], names),
         rows    |-> Map(LAMBDA r : [index |-> r.index,
                                     cells |-> Map(LAMBDA f : r.data[f], names)],
                         df_b)]

Names(df) == Map(LAMBDA c : c.name, df.columns)

\* the frame made of the columns at the given positions
Take(df, positions) ==
    [columns |-> Map(LAMBDA n : df.columns[n], positions),
     rows    |-> Map(LAMBDA r : [index |-> r.index,
                                 cells |-> Map(LAMBDA n : r.cells[n], positions)],
                     df.rows)]

\* df.drop(columns=labels): KeyError (NULL) when a label is not a column
drop(df, labels) ==
    IF Range(labels) \subseteq Range(Names(df))
    THEN Some(Take(df, SelectSeq([n \in 1..Len(df.columns) |-> n],
                                 LAMBDA n : df.columns[n].name \notin Range(labels))))
    ELSE NULL

\* the dict {row.beets: row.rkb for row in export_fields}: a later row
\* replaces an earlier one with the same key
Renamed(export_fields, name) ==
    LET rows == SelectSeq(export_fields, LAMBDA row : row.beets = name)
    IN  IF rows = <<>> THEN name ELSE rows[Len(rows)].rkb

\* df.rename(columns=..., errors='raise'): KeyError (NULL) when a key of the
\* dict is not a column
rename(df, export_fields) ==
    IF {row.beets : row \in Range(export_fields)} \subseteq Range(Names(df))
    THEN Some([columns |-> Map(LAMBDA c : [name  |-> Renamed(export_fields, c.name),
                                           dtype |-> c.dtype],
                               df.columns),
               rows    |-> df.rows])
    ELSE NULL

\* the frame without the fillna
fill_Nothing(df) == df

\* df[field] = df[field].fillna(value=value.type()), skipped for a dtype
\* whose type() is None
fill(df) ==
    [columns |-> df.columns,
     rows    |-> Map(LAMBDA r :
                         [index |-> r.index,
                          cells |-> [n \in 1..Len(df.columns) |->
                                        LET default == TypeDefault(df.columns[n].dtype)
                                        IN  IF default = NULL THEN r.cells[n]
                                            ELSE Fillna(r.cells[n], default)]],
                     df.rows)]

\* df[row.rkb] = df[row.rkb].transform(row.func) for the rows of
\* export_fields that have a func
RECURSIVE transform(_, _)
transform(df, export_fields) ==
    IF export_fields = <<>> THEN df
    ELSE LET row == Head(export_fields)
             done ==
                 IF row.func = NULL THEN df
                 ELSE [columns |-> df.columns,
                       rows    |-> Map(LAMBDA r :
                                           [index |-> r.index,
                                            cells |-> [n \in 1..Len(df.columns) |->
                                                          IF df.columns[n].name = row.rkb
                                                              /\ r.cells[n] # NULL
                                                          THEN Some(Call(Get(row.func), Get(r.cells[n])))
                                                          ELSE r.cells[n]]],
                                       df.rows)]
         IN  transform(done, Tail(export_fields))

\* get_export_df(index): NULL when drop or rename raises.  The rename
\* iterates export_info.export_fields, the conversion loop iterates the same
\* generator again
get_export_df(d, df_b, index) ==
    LET df_beets_ == IF index = NULL THEN df_b ELSE Loc(df_b, Get(index))
        export_info == get_export_conversion_info(d)
        dropped == drop(Frame(d, df_beets_), export_info.drop_fields)
        renamed == IF dropped = NULL THEN NULL
                   ELSE rename(Get(dropped), export_info.export_fields)
    IN  IF renamed = NULL THEN NULL
        ELSE Some(transform(fill(Get(renamed)), Consumed(export_info.export_fields)))

\* the position of a column name, the cell of a row under it
Position(df, name) == CHOOSE n \in 1..Len(df.columns) : df.columns[n].name = name
Cell(df, r, name) == r.cells[Position(df, name)]

\* v != '' is False: only a text cell can be the empty string
IsEmptyString(df, r, name) ==
    /\ df.columns[Position(df, name)].dtype = "string"
    /\ Cell(df, r, name) = Some("")

\* a slice that keeps the whole string
str_slice_Nothing(s, start) == s

\* Series.str.slice(start): the string from the position start (from 0) on
str_slice(s, start) == SubSeq(s, start + 1, Len(s))

\* export_df: one track per row, Location without its first character, the
\* other columns as attributes unless the value is the empty string; NULL
\* when the frame has no Location column
export_df(df) ==
    IF "Location" \notin Range(Names(df)) THEN NULL
    ELSE Some(Map(LAMBDA r :
                      [location |-> str_slice(Get(Cell(df, r, "Location")), 1),
                       attrs    |-> [name \in {c \in Range(Names(df)) :
                                                  c # "Location" /\ ~IsEmptyString(df, r, c)}
                                         |-> Cell(df, r, name)]],
                  df.rows))

\* order of the code points of the join keys, and of the keys
Rank(c) ==
    CASE c = "/" -> 1 [] c = "2" -> 2 [] c = "a" -> 3 [] c = "b" -> 4
      [] c = "e" -> 5 [] c = "m" -> 6 [] c = "o" -> 7 [] OTHER -> 8

RECURSIVE Less(_, _)
Less(s, t) ==
    IF t = <<>> THEN FALSE
    ELSE IF s = <<>> THEN TRUE
    ELSE IF Head(s) = Head(t) THEN Less(Tail(s), Tail(t))
    ELSE Rank(Head(s)) < Rank(Head(t))

\* the labels of an Index returned by difference(): sorted
RECURSIVE Sorted(_)
Sorted(S) ==
    IF S = {} THEN <<>>
    ELSE LET least == CHOOSE x \in S : \A y \in S \ {x} : Less(x, y)
         IN  <<least>> \o Sorted(S \ {least})

----------------------------------------------------------------------------
(* Input pools                                                             *)

Path_m_a == <<"/", "m", "/", "a">>
Path_M_A == <<"/", "M", "/", "A">>
Path_m_b == <<"/", "m", "/", "b">>
Path_m_eNFC == <<"/", "m", "/", "e^">>
Path_m_eNFD == <<"/", "m", "/", "e", "^">>
Path_m2_a == <<"/", "m", "2", "/", "a">>
Path_o_a == <<"/", "o", "/", "a">>

\* paths that exercise the join key and the root filter
DiffPaths == {Path_m_a, Path_M_A, Path_m_eNFC, Path_m_eNFD, Path_m2_a, Path_o_a}
\* paths of the sync runs: two tracks, one of them spelled in two ways when
\* the mapping has one sync pair
SyncPaths(d) ==
    IF Len(get_sync_pairs(d)) = 1
    THEN {Path_m_a, Path_M_A, Path_m_b}
    ELSE {Path_m_a, Path_m_b}

MusicDirectories == {NULL, Some(<<"/", "m">>), Some(<<"/", "M">>)}

Queries == {NULL, Some(2)}

\* cells of a sync column.  A beets cell is missing or set: fillna makes a
\* stored default behave as a missing value, and sync itself writes the
\* defaults.  A rekordbox cell of a table with one sync pair is missing,
\* zero or set, of a table with more pairs zero or set.
BeetsCells(d, dtype) ==
    {NULL} \cup {Some(v) : v \in NonNullValues(dtype) \ {Get(TypeDefault(dtype))}}

RkbCells(d, dtype) ==
    IF Len(get_sync_pairs(d)) = 1
    THEN {NULL} \cup {Some(v) : v \in NonNullValues(dtype)}
    ELSE {Some(v) : v \in NonNullValues(dtype)}

Cells(d, dtype, side) ==
    IF side = "beets" THEN BeetsCells(d, dtype) ELSE RkbCells(d, dtype)

RECURSIVE Extend(_, _, _, _)
Extend(S, d, cols, side) ==
    IF cols = <<>> THEN S
    ELSE Extend({rec @@ (Head(cols).field :> v) :
                     rec \in S, v \in Cells(d, Head(cols).dtype, side)},
                d, Tail(cols), side)

\* beets items without their id: a path and one cell per other column
ItemRecords(d, paths) ==
    Extend({("path" :> Some(p)) : p \in paths}, d,
           SelectSeq(get_beets_cols(d), LAMBDA c : c.field \notin {"id", "path"}),
           "beets")

\* rekordbox tracks: Location is stored without the leading slash
TrackRecords(d, paths) ==
    Extend({("Location" :> Some(Tail(p))) : p \in paths}, d,
           SelectSeq(get_rkb_cols(d), LAMBDA c : c.field # "Location"),
           "rkb")

\* no two rows of one source name the same file with the same spelling
Distinct(s, f) == \A m, n \in 1..Len(s) : m # n => s[m][f] # s[n][f]

\* catalogs of at most MaxItems items; the n-th item has id n
Catalogs(d, paths) ==
    {[n \in 1..Len(s) |-> s[n] @@ ("id" :> Some(n))] :
        s \in {t \in SeqsUpTo(ItemRecords(d, paths), MaxItems) : Distinct(t, "path")}}

XmlFiles(d, paths) ==
    {t \in SeqsUpTo(TrackRecords(d, paths), MaxTracks) : Distinct(t, "Location")}

EmptyCL == [df_common |-> <<>>, only_beets |-> {}, only_rbxml |-> {}]

----------------------------------------------------------------------------
(* State machine                                                           *)

\* both configured paths name a file
InitConfig ==
    /\ rekordbox_file = "file"
    /\ export_file = "file"

InitCommand ==
    /\ query = NULL
    /\ dry_run = FALSE
    /\ cmd = "none"
    /\ pc = "idle"
    /\ cl = EmptyCL
    /\ report = NULL
    /\ df_sync_changed = <<>>
    /\ k = 0
    /\ missing = FALSE
    /\ df_export = NULL
    /\ outxml = NULL
    /\ loaded = {}
    /\ pairs = NULL

\* inputs of the rkb-diff runs: the id and path columns, paths of every kind
InitDiff ==
    /\ ddb = DDB_Paths
    /\ lib \in Catalogs(ddb, DiffPaths)
    /\ xml \in XmlFiles(ddb, DiffPaths)
    /\ music_directory \in MusicDirectories
    /\ InitConfig
    /\ InitCommand

\* inputs of the rkb-sync runs: an Int64 pair, a float pair, or an Int64
\* and a string pair
InitSync ==
    /\ ddb \in {DDB_Rating, DDB_Bpm, DDB_RatingMix}
    /\ lib \in Catalogs(ddb, SyncPaths(ddb))
    /\ xml \in XmlFiles(ddb, SyncPaths(ddb))
    /\ music_directory = Some(<<"/", "m">>)
    /\ InitConfig
    /\ InitCommand

\* pxml.RekordboxXml(path) returns: the path names a file, or no path is
\* configured and a new, empty document is made (as in export_df)
Parses(file) == file \in {"file", "unset"}

\* xml.get_tracks()
get_tracks(file, x) == IF file = "file" THEN x ELSE <<>>

\* rkb_diff_func: crop and print the three counts
rkb_diff_func ==
    /\ pc = "idle"
    /\ Parses(rekordbox_file)
    /\ loaded' = {"rbxml", "beets"}
    /\ \E q \in Queries :
          LET c == crop(df_beets(ddb, lib, q),
                        df_rbxml(ddb, get_tracks(rekordbox_file, xml)), music_directory)
          IN  /\ query' = q
              /\ cl' = c
              /\ report' = Some([rekordbox |-> Len(c.df_common) + Cardinality(c.only_rbxml),
                                 beets     |-> beets_track_count(ddb, lib, q),
                                 shared    |-> Len(c.df_common)])
    /\ cmd' = "diff"
    /\ pc' = "done"
    /\ UNCHANGED <<pairs, ddb, lib, xml, music_directory, dry_run, df_sync_changed, k,
                   missing, df_export, outxml, rekordbox_file, export_file>>

\* rkb_sync_func up to the loop: crop, get_sync_changed, "nothing to update"
rkb_sync_func ==
    /\ pc = "idle"
    /\ Parses(rekordbox_file)
    /\ loaded' = {"rbxml", "beets"}
    /\ \E q \in Queries, n \in BOOLEAN :
          LET c == crop(df_beets(ddb, lib, q),
                        df_rbxml(ddb, get_tracks(rekordbox_file, xml)), music_directory)
              changed == get_sync_changed(ddb, c.df_common)
          IN  /\ query' = q
              /\ dry_run' = n
              /\ cl' = c
              /\ df_sync_changed' = changed
              /\ pc' = IF changed = <<>> THEN "done" ELSE "updating"
    /\ cmd' = "sync"
    /\ k' = 0
    /\ UNCHANGED <<pairs, ddb, lib, xml, music_directory, report, missing, df_export, outxml, rekordbox_file, export_file>>

\* an update that sets no field
update_Nothing(item, data) == item

\* item.update(data): set the given fields of the item
update(item, data) ==
    [f \in DOMAIN item |-> IF f \in DOMAIN data THEN data[f] ELSE item[f]]

\* the item is not looked up by its id: every item of the catalog is updated
store_EveryItem(l, id, data) == [n \in 1..Len(l) |-> update(l[n], data)]

\* lib.get_item(id), item.update(data), item.try_sync(False, False)
store(l, id, data) ==
    [n \in 1..Len(l) |-> IF l[n]["id"] = Some(id) THEN update(l[n], data) ELSE l[n]]

\* an iteration of the loop that stores the item whatever opts.dry_run is
sync_row_AlwaysStore ==
    /\ pc = "updating"
    /\ k < Len(df_sync_changed)
    /\ LET row == df_sync_changed[k + 1]
       IN  lib' = store(lib, row.Index, row.data)
    /\ k' = k + 1
    /\ pc' = IF k + 1 = Len(df_sync_changed) THEN "done" ELSE "updating"
    /\ UNCHANGED loaded
    /\ UNCHANGED <<pairs, ddb, xml, music_directory, query, dry_run, cmd, cl, report,
                   df_sync_changed, missing, df_export, outxml, rekordbox_file, export_file>>

\* one iteration of the loop over df_sync_changed.itertuples()
sync_row ==
    /\ pc = "updating"
    /\ k < Len(df_sync_changed)
    /\ LET row == df_sync_changed[k + 1]
       IN  lib' = IF dry_run THEN lib ELSE store(lib, row.Index, row.data)
    /\ k' = k + 1
    /\ pc' = IF k + 1 = Len(df_sync_changed) THEN "done" ELSE "updating"
    /\ UNCHANGED loaded
    /\ UNCHANGED <<pairs, ddb, xml, music_directory, query, dry_run, cmd, cl, report,
                   df_sync_changed, missing, df_export, outxml, rekordbox_file, export_file>>

\* the command returns; the next invocation starts from the stored data
exit ==
    /\ pc = "done"
    /\ pc' = "idle"
    /\ cmd' = "none"
    /\ cl' = EmptyCL
    /\ report' = NULL
    /\ df_sync_changed' = <<>>
    /\ k' = 0
    /\ query' = NULL
    /\ dry_run' = FALSE
    /\ missing' = FALSE
    /\ df_export' = NULL
    /\ loaded' = {}
    /\ pairs' = NULL
    /\ UNCHANGED <<ddb, lib, xml, music_directory, outxml, rekordbox_file, export_file>>

\* the catalog as a loader would leave it that stores the default of every
\* missing sync field while it reads the items
FilledWhileLoading(d, l) ==
    [n \in 1..Len(l) |->
        [f \in DOMAIN l[n] |->
            IF f \in SyncBeetsFields(d)
            THEN Fillna(l[n][f], TypeDefault(BeetsDtype(d, f))) ELSE l[n][f]]]

\* the sync command fails while it loads, having written to the catalog
rkb_sync_func_raises_Partial ==
    /\ pc = "idle"
    /\ \E q \in Queries, n \in BOOLEAN : query' = q /\ dry_run' = n
    /\ cmd' = "sync"
    /\ pc' = "failed"
    /\ lib' = FilledWhileLoading(ddb, lib)
    /\ loaded' = {}
    /\ UNCHANGED <<pairs, ddb, xml, music_directory, cl, report, df_sync_changed, k,
                   missing, df_export, outxml, rekordbox_file, export_file>>

\* rkb_sync_func when crop raises: pxml.RekordboxXml cannot parse the file,
\* or a loader raises; the exception leaves the command before the loop
rkb_sync_func_raises ==
    /\ pc = "idle"
    /\ \E q \in Queries, n \in BOOLEAN : query' = q /\ dry_run' = n
    /\ cmd' = "sync"
    /\ pc' = "failed"
    /\ loaded' = {}
    /\ UNCHANGED <<pairs, ddb, lib, xml, music_directory, cl, report, df_sync_changed, k,
                   missing, df_export, outxml, rekordbox_file, export_file>>

\* one iteration of the loop in which item.try_sync raises: nothing catches
\* the exception, it leaves the loop and the command; the item updated in
\* memory is not stored
try_sync_raises ==
    /\ pc = "updating"
    /\ ~dry_run
    /\ k < Len(df_sync_changed)
    /\ pc' = "failed"
    /\ UNCHANGED loaded
    /\ UNCHANGED <<pairs, ddb, lib, xml, music_directory, query, dry_run, cmd, cl, report,
                   df_sync_changed, k, missing, df_export, outxml, rekordbox_file, export_file>>

\* the command ends with the exception; the next invocation starts from the
\* stored data
abort ==
    /\ pc = "failed"
    /\ pc' = "idle"
    /\ cmd' = "none"
    /\ cl' = EmptyCL
    /\ report' = NULL
    /\ df_sync_changed' = <<>>
    /\ k' = 0
    /\ query' = NULL
    /\ dry_run' = FALSE
    /\ missing' = FALSE
    /\ df_export' = NULL
    /\ loaded' = {}
    /\ pairs' = NULL
    /\ UNCHANGED <<ddb, lib, xml, music_directory, outxml, rekordbox_file, export_file>>

\* rows a mapping file is made of: the rating pair, the same catalog field
\* against another rekordbox field, and rows without a pair
RatingStarsRow == Row(Some("rating"), Some("Int64"), Some("Stars"), Some("Int64"),
                      Some(TRUE), NULL, NULL)

\* a beets field without a rekordbox field, flagged sync
SyncOnlyBeetsRow == Row(Some("play_count"), Some("Int64"), NULL, NULL,
                        Some(TRUE), Some(TRUE), NULL)

CsvRows == {IdRow, PathRow, RatingRow, RatingStarsRow, MixRow, SyncOnlyBeetsRow}

\* inputs of DimensionsDB: a csv file of at most MaxRows rows
InitDDB ==
    /\ ddb \in SeqsUpTo(CsvRows, MaxRows)
    /\ lib = <<>>
    /\ xml = <<>>
    /\ music_directory = NULL
    /\ InitConfig
    /\ InitCommand

\* Libraries.__init__ builds DimensionsDB(csv_path): read_csv, then the check
\* of the index for duplicates
DimensionsDB_init ==
    /\ pc = "idle"
    /\ cmd' = "ddb"
    /\ pc' = IF DimensionsDB_raises(ddb) THEN "failed" ELSE "done"
    /\ UNCHANGED loaded
    /\ UNCHANGED <<pairs, ddb, lib, xml, music_directory, query, dry_run, cl, report,
                   df_sync_changed, k, missing, df_export, outxml, rekordbox_file, export_file>>

\* mapping rows of the export runs
FormatRow == Row(Some("format"), Some("string"), Some("Kind"), Some("string"),
                 NULL, NULL, Some("format_to_kind"))
SampleRateRow == Row(Some("samplerate"), Some("Int64"), Some("SampleRate"),
                     Some("Int64"), NULL, NULL, NULL)
SampleRateHzRow == Row(Some("samplerate"), Some("Int64"), Some("SampleRate"),
                       Some("Int64"), NULL, NULL, Some("khz_to_hz"))

DDB_FormatRating == <<IdRow, PathRow, FormatRow, RatingRow>>
DDB_SampleRate == <<IdRow, PathRow, SampleRateRow>>
DDB_SampleRateHz == <<IdRow, PathRow, SampleRateHzRow>>
DDB_RatingTwice == <<IdRow, PathRow, RatingRow, RatingStarsRow>>

\* a second beets field exported under the rekordbox name Rating
RkbRatingRow == Row(Some("rkb_Rating"), Some("Int64"), Some("Rating"), Some("Int64"),
                    NULL, NULL, NULL)
DDB_Collision == <<IdRow, PathRow, RatingRow, RkbRatingRow>>

ExportTables == {DDB_FormatRating, DDB_SampleRate, DDB_SampleRateHz, DDB_RatingMix,
                 DDB_RatingTwice, DDB_Collision}

\* paths of the export runs: two tracks, one of them spelled in two ways
\* unless the catalog has the format column
ExportPaths(d) ==
    IF "format" \in BeetsFields(d)
    THEN {Path_m_a, Path_m_b}
    ELSE {Path_m_a, Path_M_A, Path_m_b}

Formats == {"AAC", "MP3", "WAV", "FLAC"}

\* cells of a beets column of the export runs
ExportCells(d, col) ==
    CASE col.field = "format"     -> {NULL} \cup {Some(v) : v \in Formats}
      [] col.field = "samplerate" -> {NULL, Some(44)}
      [] OTHER                    -> BeetsCells(d, col.dtype)

RECURSIVE ExportExtend(_, _, _)
ExportExtend(S, d, cols) ==
    IF cols = <<>> THEN S
    ELSE ExportExtend({rec @@ (Head(cols).field :> v) :
                           rec \in S, v \in ExportCells(d, Head(cols))},
                      d, Tail(cols))

ExportCatalogs(d) ==
    LET records ==
            ExportExtend({("path" :> Some(p)) : p \in ExportPaths(d)}, d,
                         SelectSeq(get_beets_cols(d),
                                   LAMBDA c : c.field \notin {"id", "path"}))
    IN  {[n \in 1..Len(s) |-> s[n] @@ ("id" :> Some(n))] :
            s \in {t \in SeqsUpTo(records, MaxItems) : Distinct(t, "path")}}

\* rekordbox tracks of the export runs: a Location, every other attribute
\* missing
ExportXmlFiles(d) ==
    LET records == {[f \in RkbFields(d) |->
                        IF f = "Location" THEN Some(Tail(p)) ELSE NULL] :
                    p \in ExportPaths(d)}
    IN  {t \in SeqsUpTo(records, MaxTracks) : Distinct(t, "Location")}

\* inputs of the rkb-export runs
InitExport ==
    /\ ddb \in ExportTables
    /\ lib \in ExportCatalogs(ddb)
    /\ xml \in ExportXmlFiles(ddb)
    /\ music_directory = Some(<<"/", "m">>)
    /\ InitConfig
    /\ InitCommand

\* the export reads the rekordbox file whatever the options are
export_reads_rbxml_Always(m) == TRUE

\* rkb_export_func calls crop, which reads the rekordbox file, only with
\* --missing
export_reads_rbxml(m) == m

\* two columns of the frame have one name
HasDuplicateNames(df) ==
    \E m, n \in 1..Len(df.columns) : m # n /\ df.columns[m].name = df.columns[n].name

\* what export_df leaves: nothing when outxml.save cannot write to the
\* path; for a frame with a repeated column name itertuples renames the
\* repeated field, and add_track may take or refuse the renamed attribute
Written(df, file) ==
    IF df = NULL \/ file # "file" THEN {NULL}
    ELSE IF HasDuplicateNames(Get(df)) THEN {NULL, export_df(Get(df))}
    ELSE {export_df(Get(df))}

\* an export that never takes the "nothing to do" exit
nothing_to_do_Never(m, c) == FALSE

\* rkb_export_func: if opts.missing, and cl.only_beets.empty, print "nothing
\* to do" and return
nothing_to_do(m, c) == m /\ c.only_beets = {}

\* an export whose fillna is stored in the items of the catalog
rkb_export_func_InPlace ==
    /\ pc = "idle"
    /\ \E q \in Queries, m \in BOOLEAN :
          /\ export_reads_rbxml(m) => Parses(rekordbox_file)
          /\ loaded' = IF export_reads_rbxml(m) THEN {"rbxml", "beets"} ELSE {"beets"}
          /\ \E df_b \in {df_beets(ddb, lib, q)} :
             \E c \in {IF m THEN crop(df_b, df_rbxml(ddb, get_tracks(rekordbox_file, xml)),
                                      music_directory)
                        ELSE EmptyCL} :
             \E df \in {IF nothing_to_do(m, c) THEN NULL
                         ELSE get_export_df(ddb, df_b,
                                            IF m THEN Some(Sorted(c.only_beets)) ELSE NULL)} :
             \E written \in Written(df, export_file) :
                 /\ query' = q
                 /\ missing' = m
                 /\ cl' = c
                 /\ df_export' = df
                 /\ pc' = IF nothing_to_do(m, c) \/ written # NULL
                          THEN "done" ELSE "failed"
                 /\ outxml' = IF written = NULL THEN outxml ELSE written
    /\ cmd' = "export"
    /\ lib' = [n \in 1..Len(lib) |->
                  [f \in DOMAIN lib[n] |->
                      IF TypeDefault(BeetsDtype(ddb, f)) = NULL THEN lib[n][f]
                      ELSE Fillna(lib[n][f], TypeDefault(BeetsDtype(ddb, f)))]]
    /\ UNCHANGED <<pairs, ddb, xml, music_directory, dry_run, report,
                   df_sync_changed, k, rekordbox_file, export_file>>

\* rkb_export_func: with --missing crop and keep only_beets, get_export_df,
\* export_df
rkb_export_func ==
    /\ pc = "idle"
    /\ \E q \in Queries, m \in BOOLEAN :
          /\ export_reads_rbxml(m) => Parses(rekordbox_file)
          /\ loaded' = IF export_reads_rbxml(m) THEN {"rbxml", "beets"} ELSE {"beets"}
          /\ \E df_b \in {df_beets(ddb, lib, q)} :
             \E c \in {IF m THEN crop(df_b, df_rbxml(ddb, get_tracks(rekordbox_file, xml)),
                                      music_directory)
                        ELSE EmptyCL} :
             \E df \in {IF nothing_to_do(m, c) THEN NULL
                         ELSE get_export_df(ddb, df_b,
                                            IF m THEN Some(Sorted(c.only_beets)) ELSE NULL)} :
             \E written \in Written(df, export_file) :
                 /\ query' = q
                 /\ missing' = m
                 /\ cl' = c
                 /\ df_export' = df
                 /\ pc' = IF nothing_to_do(m, c) \/ written # NULL
                          THEN "done" ELSE "failed"
                 /\ outxml' = IF written = NULL THEN outxml ELSE written
    /\ cmd' = "export"
    /\ UNCHANGED <<pairs, ddb, lib, xml, music_directory, dry_run, report,
                   df_sync_changed, k, rekordbox_file, export_file>>

\* a command that needs the rekordbox file when the path does not name a
\* file: crop starts with self._df_rbxml, pxml.RekordboxXml raises there and
\* the exception leaves the command
crop_raises ==
    /\ pc = "idle"
    /\ ~Parses(rekordbox_file)
    /\ \E command \in {"diff", "sync", "export"}, q \in Queries, n, m \in BOOLEAN :
          /\ n => command = "sync"
          /\ m => command = "export"
          /\ command = "export" => export_reads_rbxml(m)
          /\ cmd' = command
          /\ query' = q
          /\ dry_run' = n
          /\ missing' = m
    /\ pc' = "failed"
    /\ loaded' = {}
    /\ UNCHANGED <<pairs, ddb, lib, xml, music_directory, cl, report, df_sync_changed, k,
                   df_export, outxml, rekordbox_file, export_file>>

NextDiff == rkb_diff_func \/ exit

NextSync == rkb_sync_func \/ sync_row \/ exit

SpecDiff == InitDiff /\ [][NextDiff]_vars

NextExport == rkb_export_func \/ exit \/ abort

SpecExport == InitExport /\ [][NextExport]_vars

\* a caller of the constructed DimensionsDB reads get_sync_pairs()
DimensionsDB_get_sync_pairs ==
    /\ pc = "done"
    /\ cmd = "ddb"
    /\ pairs' = Some(get_sync_pairs(ddb))
    /\ cmd' = "pairs"
    /\ UNCHANGED <<ddb, lib, xml, music_directory, query, dry_run, pc, cl, report,
                   df_sync_changed, k, missing, df_export, outxml, rekordbox_file,
                   export_file, loaded>>

NextDDB == DimensionsDB_init \/ DimensionsDB_get_sync_pairs \/ exit

SpecDDB == InitDDB /\ [][NextDDB]_vars

SpecSync == InitSync /\ [][NextSync]_vars

\* rkb-sync runs in which loading or storing may raise
NextSyncFail ==
    rkb_sync_func \/ rkb_sync_func_raises \/ sync_row \/ try_sync_raises \/ exit \/ abort

SpecSyncFail == InitSync /\ [][NextSyncFail]_vars

\* the values of the rekordbox_file and export_file options: a file, no
\* value (the default None), a path that does not exist, a directory
RekordboxFiles == {"file", "unset", "missing", "directory"}
ExportFiles == {"file", "unset", "directory"}

ConfigPaths == {Path_m_a, Path_m_b}

\* inputs of the runs of the three commands under every configuration; a
\* path that names no file has no tracks to read
InitFiles ==
    /\ ddb = DDB_Rating
    /\ lib \in Catalogs(ddb, ConfigPaths)
    /\ rekordbox_file \in RekordboxFiles
    /\ export_file \in ExportFiles
    /\ xml \in IF rekordbox_file = "file" THEN XmlFiles(ddb, ConfigPaths) ELSE {<<>>}
    /\ music_directory = Some(<<"/", "m">>)
    /\ InitCommand

NextConfig ==
    rkb_diff_func \/ rkb_sync_func \/ sync_row \/ rkb_export_func \/ crop_raises
        \/ exit \/ abort

SpecConfig == InitFiles /\ [][NextConfig]_vars

----------------------------------------------------------------------------
(* Properties of crop, checked on the rkb-diff runs (SpecDiff)             *)

\* the tables the running command loaded
DfBeets == df_beets(ddb, lib, query)
DfRbxml == df_rbxml(ddb, xml)
DfR == RootFiltered(DfRbxml, music_directory)

Keys(df) == {row.index : row \in Range(df)}

\* rkb-diff has run crop and printed its report
Cropped == cmd = "diff" /\ pc = "done"

RowsWithKey(df, key) == {n \in 1..Len(df) : df[n].index = key}

\* C2: partition property of crop: the rows of df_common plus the labels of
\* only_rbxml count the root-filtered rekordbox table, and the rows of
\* df_common plus the labels of only_beets count the beets table
C2_Partition ==
    Cropped =>
        /\ Len(cl.df_common) + Cardinality(cl.only_rbxml) = Len(DfR)
        /\ Len(cl.df_common) + Cardinality(cl.only_beets) = Len(DfBeets)

\* Two paths are the same up to normalization form and letter case when
\* composing them (NFC) and upper-casing them gives the same code points.
RECURSIVE Compose(_)
Compose(s) ==
    IF Len(s) < 2 THEN s
    ELSE IF s[2] = "^" /\ s[1] \in {"e", "E"}
         THEN <<IF s[1] = "e" THEN "e^" ELSE "E^">> \o Compose(SubSeq(s, 3, Len(s)))
         ELSE <<s[1]>> \o Compose(Tail(s))

UpperChar(c) ==
    CASE c = "a"  -> "A"
      [] c = "b"  -> "B"
      [] c = "e"  -> "E"
      [] c = "m"  -> "M"
      [] c = "o"  -> "O"
      [] c = "e^" -> "E^"
      [] OTHER    -> c

SamePath(p, q) == Map(UpperChar, Compose(p)) = Map(UpperChar, Compose(q))

Inside(path, dir) ==
    /\ StartsWith(path, dir)
    /\ \/ Len(path) = Len(dir)
       \/ dir[Len(dir)] = "/"
       \/ path[Len(dir) + 1] = "/"

\* C4: with a music directory, a rekordbox row is kept exactly when its path
\* is inside that directory (case folded on both sides), and a row outside
\* it appears in none of df_common, only_rbxml, only_beets
C4_RootFilter ==
    (Cropped /\ music_directory # NULL) =>
        \A r \in 1..Len(DfRbxml) :
            LET inside == Inside(Lower(Get(DfRbxml[r].data["Location"])),
                                 Lower(Get(music_directory)))
            IN  /\ DfRbxml[r] \in Range(DfR) <=> inside
                /\ ~inside => /\ DfRbxml[r].index \notin Keys(cl.df_common)
                              /\ DfRbxml[r].index \notin cl.only_rbxml

\* C5: only_rbxml is the set of keys of the root-filtered rekordbox table
\* that are not beets keys, only_beets the set of beets keys that are not
\* keys of the root-filtered rekordbox table; the three outputs are disjoint
C5_SetDifferences ==
    Cropped =>
        /\ \A key \in Keys(DfBeets) \cup Keys(DfRbxml) :
              /\ key \in cl.only_rbxml <=> (key \in Keys(DfR) /\ key \notin Keys(DfBeets))
              /\ key \in cl.only_beets <=> (key \in Keys(DfBeets) /\ key \notin Keys(DfR))
        /\ cl.only_rbxml \cup cl.only_beets \subseteq Keys(DfBeets) \cup Keys(DfRbxml)
        /\ cl.only_rbxml \cap cl.only_beets = {}
        /\ Keys(cl.df_common) \cap cl.only_beets = {}
        /\ Keys(cl.df_common) \cap cl.only_rbxml = {}

\* crop, given a music directory, returned tracks of all three kinds
C5_Witness ==
    /\ Cropped
    /\ music_directory # NULL
    /\ cl.only_rbxml # {}
    /\ cl.only_beets # {}
    /\ cl.df_common # <<>>

\* C6: df_common has exactly one row for each key present in both the beets
\* table and the root-filtered rekordbox table, carrying that key's beets
\* cells and rekordbox cells, and no row for any other key
C6_OneRowPerSharedKey ==
    Cropped =>
        /\ Keys(cl.df_common) = Keys(DfBeets) \cap Keys(DfR)
        /\ \A key \in Keys(cl.df_common) :
              /\ Cardinality(RowsWithKey(cl.df_common, key)) = 1
              /\ \A n \in RowsWithKey(cl.df_common, key) :
                    \E b \in RowsWithKey(DfBeets, key), r \in RowsWithKey(DfR, key) :
                        /\ \A f \in BeetsFields(ddb) : cl.df_common[n].data[f] = DfBeets[b].data[f]
                        /\ \A f \in RkbFields(ddb) : cl.df_common[n].data[f] = DfR[r].data[f]

----------------------------------------------------------------------------
(* Properties of get_sync_changed and the sync loop, checked on the        *)
(* rkb-sync runs (SpecSync)                                                *)

\* rkb-sync holds the result of crop and of get_sync_changed
SyncCropped == cmd = "sync" /\ pc \in {"updating", "done"}

\* rkb-sync has applied and stored every row of the change set
SyncApplied == cmd = "sync" /\ pc = "done" /\ ~dry_run

ChangedIds == {df_sync_changed[n].Index : n \in 1..Len(df_sync_changed)}

SyncPairs == Range(get_sync_pairs(ddb))

BeetsCell(row, cols) == row.data[Get(cols.beets)]
RkbCell(row, cols) == row.data[Get(cols.rkb)]
BeetsDefault(cols) == TypeDefault(BeetsDtype(ddb, Get(cols.beets)))

\* C1: idempotence of sync: once every row of the change set has been
\* applied and stored, crop and get_sync_changed on the updated catalog,
\* the unchanged rekordbox table and the same query give no row
C1_Idempotent ==
    SyncApplied =>
        get_sync_changed(ddb, crop(DfBeets, DfRbxml, music_directory).df_common) = <<>>

\* the beets cell, a missing value filled with the default, is not the
\* rekordbox value; a missing rekordbox value counts as the default the
\* change set carries for it
Differs(row, cols) ==
    Fillna(BeetsCell(row, cols), BeetsDefault(cols))
      # Fillna(RkbCell(row, cols), BeetsDefault(cols))

\* C7: the change set has one row, in order, for every row of df_common in
\* which at least one sync pair differs, and no other row
C7_InclusionRule ==
    SyncCropped =>
        Map(LAMBDA ch : ch.Index, df_sync_changed)
          = Map(LAMBDA row : Get(row.data["id"]),
                SelectSeq(cl.df_common, LAMBDA row : \E cols \in SyncPairs : Differs(row, cols)))

\* the pair cannot have put the row in the change set: the beets cell is
\* missing and the rekordbox cell is the zero value, or the cells are equal
Quiet(row, cols) ==
    \/ BeetsCell(row, cols) = NULL /\ RkbCell(row, cols) = BeetsDefault(cols)
    \/ BeetsCell(row, cols) # NULL /\ BeetsCell(row, cols) = RkbCell(row, cols)

\* the beets cell is missing and the rekordbox cell holds a non-zero value
NullAgainstValue(row, cols) ==
    /\ BeetsCell(row, cols) = NULL
    /\ RkbCell(row, cols) # NULL
    /\ RkbCell(row, cols) # BeetsDefault(cols)

RowsOfId(id) == {n \in 1..Len(cl.df_common) : cl.df_common[n].data["id"] = Some(id)}

\* C8: a missing beets cell equals a rekordbox zero value, so a track whose
\* pairs are all quiet is not in the change set; a missing beets cell
\* against a non-zero rekordbox value puts the track in the change set
C8_NullHandling ==
    SyncCropped =>
        \A n \in 1..Len(cl.df_common) :
            LET row == cl.df_common[n]
                id == Get(row.data["id"])
            IN  /\ (\A m \in RowsOfId(id) : \A cols \in SyncPairs : Quiet(cl.df_common[m], cols))
                      => id \notin ChangedIds
                /\ (\E cols \in SyncPairs : NullAgainstValue(row, cols))
                      => id \in ChangedIds

\* one track with a missing beets cell stays out against a zero value and
\* another comes in against a non-zero value
C8_Witness ==
    /\ SyncCropped
    /\ \E n \in 1..Len(cl.df_common) :
          /\ \E cols \in SyncPairs :
                BeetsCell(cl.df_common[n], cols) = NULL
                  /\ RkbCell(cl.df_common[n], cols) = BeetsDefault(cols)
          /\ Get(cl.df_common[n].data["id"]) \notin ChangedIds
    /\ \E n \in 1..Len(cl.df_common) :
          /\ \E cols \in SyncPairs : NullAgainstValue(cl.df_common[n], cols)
          /\ Get(cl.df_common[n].data["id"]) \in ChangedIds

\* the value the change set is to carry for a pair of a row of df_common
Emitted(row, cols) ==
    IF RkbCell(row, cols) = NULL THEN BeetsDefault(cols) ELSE RkbCell(row, cols)

\* C9: every row of the change set carries, under each beets sync field,
\* the rekordbox value of a row of df_common with that id, or the beets
\* column's default where that value is missing; no value is missing
C9_ChangeSetValues ==
    SyncCropped =>
        \A n \in 1..Len(df_sync_changed) :
            LET ch == df_sync_changed[n]
            IN  /\ DOMAIN ch.data = {Get(cols.beets) : cols \in SyncPairs}
                /\ \A f \in DOMAIN ch.data : ch.data[f] # NULL
                /\ \E m \in RowsOfId(ch.Index) :
                      \A cols \in SyncPairs :
                          ch.data[Get(cols.beets)] = Emitted(cl.df_common[m], cols)

\* the change set holds a row made from a missing rekordbox value and a row
\* made from a non-zero rekordbox value
C9_Witness ==
    /\ SyncCropped
    /\ \E n, m \in 1..Len(df_sync_changed) :
          \E cols \in SyncPairs :
              /\ \E r \in RowsOfId(df_sync_changed[n].Index) :
                    RkbCell(cl.df_common[r], cols) = NULL
              /\ df_sync_changed[n].data[Get(cols.beets)] = BeetsDefault(cols)
              /\ df_sync_changed[m].data[Get(cols.beets)] # BeetsDefault(cols)

\* C10: a step of the sync loop changes only the item whose id is the
\* index of the row being applied, sets its sync fields to the row's values
\* and leaves its other fields alone; nothing else changes the catalog
C10_Frame ==
    [][ /\ lib' # lib => pc = "updating" /\ cmd = "sync" /\ ~dry_run
        /\ (pc = "updating" /\ ~dry_run) =>
              LET row == df_sync_changed[k + 1]
              IN  /\ Len(lib') = Len(lib)
                  /\ \A n \in 1..Len(lib) :
                        IF lib[n]["id"] = Some(row.Index)
                        THEN \A f \in DOMAIN lib[n] :
                                lib'[n][f] = IF f \in SyncBeetsFields(ddb)
                                             THEN row.data[f] ELSE lib[n][f]
                        ELSE lib'[n] = lib[n]
      ]_vars

\* a sync run has stored a change to one of two items and left alone the
\* other, which is not in the change set
C10_Witness ==
    /\ SyncApplied
    /\ Len(lib) = MaxItems
    /\ ChangedIds # {}
    /\ \E n \in 1..Len(lib) : Get(lib[n]["id"]) \notin ChangedIds
    /\ \E n \in 1..Len(lib), m \in 1..Len(df_sync_changed) :
          /\ lib[n]["id"] = Some(df_sync_changed[m].Index)
          /\ \A f \in SyncBeetsFields(ddb) : lib[n][f] = df_sync_changed[m].data[f]

----------------------------------------------------------------------------
(* Failures and dry runs of rkb-sync (SpecSyncFail, SpecSync)              *)

\* df_common holds every beets and every rekordbox column of both tables
BothLoaded ==
    /\ cl.df_common # <<>>
    /\ \A row \in Range(cl.df_common) :
          DOMAIN row.data = BeetsFields(ddb) \cup RkbFields(ddb)

\* C11: no mutation before reconciliation: a step changes the catalog only
\* inside the loop of rkb-sync, when crop has returned the joined table of
\* both sources and get_sync_changed a change set; a command that fails
\* before the loop leaves the catalog as it was
C11_NoMutationBeforeReconciliation ==
    [][ /\ lib' # lib =>
              /\ cmd = "sync" /\ pc = "updating"
              /\ BothLoaded
              /\ df_sync_changed = get_sync_changed(ddb, cl.df_common)
              /\ k < Len(df_sync_changed)
        /\ (pc = "idle" /\ pc' = "failed") => lib' = lib
      ]_vars

\* loading has failed for a catalog that has an item with a missing sync
\* field
C11_Witness ==
    /\ cmd = "sync" /\ pc = "failed" /\ cl = EmptyCL
    /\ \E n \in 1..Len(lib) : \E f \in SyncBeetsFields(ddb) : lib[n][f] = NULL

ItemOf(id) == CHOOSE it \in Range(lib) : it["id"] = Some(id)

\* the row of the change set is what the catalog holds for its item
Applied(ch) == \A f \in DOMAIN ch.data : ItemOf(ch.Index)[f] = ch.data[f]

\* C12: UpdateError policy: when try_sync has failed for row k+1, the rows
\* after it are still applied and stored
C12_ContinueAfterFailure ==
    (cmd = "sync" /\ pc = "failed" /\ df_sync_changed # <<>>) =>
        \A n \in (k + 2)..Len(df_sync_changed) : Applied(df_sync_changed[n])

\* the last of the first j rows of the change set that has the id
LastRow(id, j) ==
    CHOOSE n \in 1..j :
        /\ df_sync_changed[n].Index = id
        /\ \A m \in (n + 1)..j : df_sync_changed[m].Index # id

\* the beets columns the item had when the command loaded it
Loaded(id) == (CHOOSE row \in Range(cl.df_common) : row.data["id"] = Some(id)).data

\* C13: non-transactional sync: wherever the loop stands or has stopped
\* after k rows, every item of the first k rows holds the values of its
\* last processed row, every item of the other rows holds the values it
\* was loaded with, and no item has lost a field that is not synced
C13_NoRollback ==
    (cmd = "sync" /\ ~dry_run /\ pc \in {"updating", "failed"}) =>
        \A n \in 1..Len(df_sync_changed) :
            LET id == df_sync_changed[n].Index
            IN  /\ \A f \in BeetsFields(ddb) \ SyncBeetsFields(ddb) :
                      ItemOf(id)[f] = Loaded(id)[f]
                /\ IF \E m \in 1..k : df_sync_changed[m].Index = id
                   THEN Applied(df_sync_changed[LastRow(id, k)])
                   ELSE \A f \in SyncBeetsFields(ddb) : ItemOf(id)[f] = Loaded(id)[f]

\* try_sync has failed at the second of two rows for two different items
C13_Witness ==
    /\ cmd = "sync" /\ pc = "failed"
    /\ k = 1
    /\ Len(df_sync_changed) = 2
    /\ df_sync_changed[1].Index # df_sync_changed[2].Index
    /\ ~Applied(df_sync_changed[2])

\* C14: dry run: no step of a sync command run with --dry-run changes the
\* stored catalog
C14_DryRun ==
    [][ (cmd' = "sync" /\ dry_run') => lib' = lib ]_vars

\* a dry run has gone through a change set none of whose rows is stored
C14_Witness ==
    /\ cmd = "sync" /\ dry_run /\ pc = "done"
    /\ k = Len(df_sync_changed)
    /\ k > 0
    /\ \A n \in 1..k : ~Applied(df_sync_changed[n])

----------------------------------------------------------------------------
(* Loading the mapping table (SpecDDB)                                     *)

\* DimensionsDB has been constructed, or its construction has failed
Constructed == cmd = "ddb" /\ pc # "idle"

\* two rows of the table carry the same (beets_field, rkb_field) pair
HasDuplicatePair(d) ==
    \E m, n \in 1..Len(d) :
        /\ m # n
        /\ d[m].beets_field # NULL /\ d[m].rkb_field # NULL
        /\ d[m].beets_field = d[n].beets_field
        /\ d[m].rkb_field = d[n].rkb_field

\* C15: duplicate correspondence rejection: the construction of
\* DimensionsDB fails for every table in which two rows carry the same
\* (beets_field, rkb_field) pair
C15_DuplicatePairRejected ==
    (Constructed /\ HasDuplicatePair(ddb)) => pc = "failed"

\* two rows map one beets field to two different rekordbox fields
HasAmbiguousField(d) ==
    \E m, n \in 1..Len(d) :
        /\ d[m].beets_field # NULL /\ d[m].rkb_field # NULL /\ d[n].rkb_field # NULL
        /\ d[m].beets_field = d[n].beets_field
        /\ d[m].rkb_field # d[n].rkb_field

\* C16: ambiguous catalog field rejection: the construction of DimensionsDB
\* fails for every table that maps one beets field to two different
\* rekordbox fields
C16_AmbiguousFieldRejected ==
    (Constructed /\ HasAmbiguousField(ddb)) => pc = "failed"

----------------------------------------------------------------------------
(* Properties of the export projection (SpecExport)                        *)

\* rkb-export has called get_export_df
Exported == cmd = "export" /\ pc \in {"done", "failed"} /\ ~(missing /\ cl.only_beets = {})

\* get_export_df has returned a table
Projected == cmd = "export" /\ df_export # NULL

ExportFields == Range(get_export_conversion_info(ddb).export_fields)

\* C17: no_export exclusion: a beets field of a row with no_export is in
\* drop_fields, is not one of the export_fields, and neither it nor the
\* rekordbox name of that row is a column of the table get_export_df
\* returns; every entry of export_fields is the pair of names of a row
C17_NoExportExcluded ==
    Exported =>
        /\ \A n \in 1..Len(ddb) :
              (ddb[n].no_export = Some(TRUE) /\ ddb[n].beets_field # NULL) =>
                  /\ Get(ddb[n].beets_field) \in Range(get_export_conversion_info(ddb).drop_fields)
                  /\ \A ef \in ExportFields : ef.beets # Get(ddb[n].beets_field)
                  /\ df_export # NULL =>
                        /\ Get(ddb[n].beets_field) \notin Range(Names(Get(df_export)))
                        /\ ddb[n].rkb_field # NULL =>
                              Get(ddb[n].rkb_field) \notin Range(Names(Get(df_export)))
        /\ \A ef \in ExportFields :
              \E n \in 1..Len(ddb) :
                  ddb[n].beets_field = Some(ef.beets) /\ ddb[n].rkb_field = Some(ef.rkb)

\* the items the command loaded under a join key
ItemsOfKey(key) ==
    {it \in Range(items(lib, query)) : NormalizeLower(Get(it["path"])) = key}

\* the beets fields the columns of the exported table come from, in the
\* order of the columns
SourceFields ==
    SelectSeq(UniqueSeq(Map(LAMBDA c : c.field, get_beets_cols(ddb))),
              LAMBDA f : f \notin Range(get_export_conversion_info(ddb).drop_fields))

\* the canonical zero value of a column type
Zero(dtype) == IF dtype = "string" THEN Some("") ELSE Some(0)

Kind(format) ==
    IF format = "AAC" THEN "M4A File"
    ELSE IF format = "MP3" THEN "MP3 File"
    ELSE IF format = "WAV" THEN "WAV File"
    ELSE format

\* C19: format-to-kind transform: the Kind cell of an exported row is the
\* kind of the format of its item: M4A File for AAC, MP3 File for MP3, WAV
\* File for WAV, the format itself for any other
C19_FormatToKind ==
    (Projected /\ "format" \in BeetsFields(ddb)) =>
        \A r \in Range(Get(df_export).rows) :
            \E it \in ItemsOfKey(r.index) :
                it["format"] # NULL =>
                    Cell(Get(df_export), r, "Kind") = Some(Kind(Get(it["format"])))

\* C20: sample-rate transform: the SampleRate cell of an exported row is
\* the samplerate of its item multiplied by 1000
C20_SampleRateHz ==
    (Projected /\ "samplerate" \in BeetsFields(ddb)) =>
        \A r \in Range(Get(df_export).rows) :
            \E it \in ItemsOfKey(r.index) :
                it["samplerate"] # NULL =>
                    Cell(Get(df_export), r, "SampleRate") = Some(1000 * Get(it["samplerate"]))

----------------------------------------------------------------------------
(* Configuration errors of the export (SpecExport)                         *)

\* the name a beets column has after the rename
Target(name) ==
    IF \E ef \in ExportFields : ef.beets = name
    THEN (CHOOSE ef \in ExportFields : ef.beets = name).rkb
    ELSE name

\* two beets columns that are not dropped get one name
Collides ==
    \E f, g \in BeetsFields(ddb) \ Range(get_export_conversion_info(ddb).drop_fields) :
        f # g /\ Target(f) = Target(g)

\* C21: export rename collision: when the rename gives two columns of the
\* projected table one name, get_export_df fails and returns no table
C21_RenameCollision ==
    (Exported /\ Collides) => (pc = "failed" /\ df_export = NULL)

\* an exported row names a transform that xform does not hold
UnknownTransform ==
    \E n \in 1..Len(ddb) :
        /\ ddb[n].convert_to_rkb \notin {NULL, Some("format_to_kind")}
        /\ \E ef \in ExportFields : ddb[n].beets_field = Some(ef.beets)

\* C22: unknown transform reference: an export with a mapping row that
\* names a transform that does not exist fails, returns no table and writes
\* no file
C22_UnknownTransform ==
    (Exported /\ UnknownTransform) => (pc = "failed" /\ df_export = NULL)

----------------------------------------------------------------------------
(* The commands under every configuration (SpecConfig)                     *)

\* a step of rkb_sync_func that has computed the change set
SyncStarts == pc = "idle" /\ cmd' = "sync" /\ "rbxml" \in loaded'

\* a step of rkb_export_func with --missing that finds nothing missing
ExportFindsNothing ==
    pc = "idle" /\ cmd' = "export" /\ "rbxml" \in loaded' /\ missing' /\ cl'.only_beets = {}

\* C23: nothing-to-do is a no-op: a sync whose change set is empty ends
\* successfully without entering the update loop and without changing an
\* item; an export with --missing that finds only_beets empty ends
\* successfully without writing a file
C23_NothingToDo ==
    [][/\ (SyncStarts /\ df_sync_changed' = <<>>) => (pc' = "done" /\ lib' = lib)
       /\ ExportFindsNothing =>
              (pc' = "done" /\ outxml' = outxml /\ df_export' = NULL /\ lib' = lib)]_vars

\* an export with --missing of a catalog whose tracks are all in rekordbox
\* has ended and no file is written
C23_Witness ==
    /\ cmd = "export" /\ pc = "done" /\ missing /\ cl.only_beets = {}
    /\ cl.df_common # <<>> /\ outxml = NULL

\* the command reads the rekordbox file
NeedsRbxml == cmd \in {"diff", "sync"} \/ (cmd = "export" /\ missing)

\* C24: required external source: a diff, a sync or an export with
\* --missing fails before the catalog is loaded when rekordbox_file is not
\* configured, does not exist or is not a file
C24_RequiredSource ==
    (pc # "idle" /\ NeedsRbxml /\ rekordbox_file # "file") => (pc = "failed" /\ loaded = {})

\* C25: export path configuration error: an export fails before a source
\* is loaded and without writing a file when export_file is not configured
\* or is a directory
C25_ExportPath ==
    (cmd = "export" /\ pc # "idle" /\ export_file # "file") =>
        (pc = "failed" /\ loaded = {} /\ outxml = NULL)

\* C28: catalog mutated only by sync: no step changes the rekordbox file;
\* a step of diff or export, from its start to its exit, leaves every item
\* as it is; an item changes only in an iteration of the sync loop
C28_OnlySyncMutates ==
    [][/\ xml' = xml
       /\ (cmd' \in {"diff", "export"} \/ cmd \in {"diff", "export"}) => lib' = lib
       /\ lib' # lib => (cmd = "sync" /\ pc = "updating" /\ cmd' = "sync")]_vars

\* an export has filled a missing rating in its table and the item still
\* has no rating
C28_Witness ==
    /\ cmd = "export" /\ pc = "done" /\ df_export # NULL
    /\ \E r \in Range(Get(df_export).rows) : \E it \in Range(lib) :
          /\ NormalizeLower(Get(it["path"])) = r.index
          /\ it["rating"] = NULL
          /\ Cell(Get(df_export), r, "Rating") = Some(0)

\* C30: optional external source: an export without --missing never reads
\* the rekordbox file and succeeds whatever rekordbox_file is; a command
\* fails for the rekordbox file only if it reads it
C30_OptionalSource ==
    /\ (cmd = "export" /\ ~missing /\ pc # "idle") =>
           /\ "rbxml" \notin loaded
           /\ export_file = "file" => pc = "done"
    /\ (pc = "failed" /\ export_file = "file") => (NeedsRbxml /\ ~Parses(rekordbox_file))

\* an export without --missing has written its file although the rekordbox
\* path does not exist
C30_Witness ==
    /\ cmd = "export" /\ ~missing /\ pc = "done"
    /\ rekordbox_file = "missing"
    /\ outxml # NULL /\ lib # <<>>

----------------------------------------------------------------------------
(* get_sync_pairs (SpecDDB)                                                *)

\* the rows of the table whose sync flag is true
SyncRows == {n \in 1..Len(ddb) : ddb[n].sync = Some(TRUE)}

\* the pairs are those of the rows flagged sync, one per row
OnePairPerSyncRow ==
    cmd = "pairs" =>
        /\ Len(Get(pairs)) = Cardinality(SyncRows)
        /\ \A n \in SyncRows :
              \E j \in 1..Len(Get(pairs)) :
                  /\ Get(pairs)[j].beets = ddb[n].beets_field
                  /\ Get(pairs)[j].rkb = ddb[n].rkb_field
        /\ \A j \in 1..Len(Get(pairs)) :
              \E n \in SyncRows :
                  /\ Get(pairs)[j].beets = ddb[n].beets_field
                  /\ Get(pairs)[j].rkb = ddb[n].rkb_field

\* C27: sync pairs query: get_sync_pairs yields one pair for every row
\* whose sync flag is true and none for another row, and both fields of
\* every pair it yields are non-null
C27_SyncPairs ==
    /\ OnePairPerSyncRow
    /\ cmd = "pairs" =>
           \A j \in 1..Len(Get(pairs)) :
               Get(pairs)[j].beets # NULL /\ Get(pairs)[j].rkb # NULL

----------------------------------------------------------------------------
(* The leading separator of Location (SpecExport)                          *)

\* C26: path separator round trip: the loader prepends one "/" to every
\* Location of the xml file and the writer strips it again: writing a loaded
\* Location gives the stored one, loading a written catalog path gives the
\* path; every Location of the loaded table is a stored one behind one "/",
\* and every Location of the written file is a catalog path without its "/"
C26_PathRoundTrip ==
    /\ \A t \in Range(xml) :
           str_slice(PrependSlash(Get(t["Location"])), 1) = Get(t["Location"])
    /\ \A it \in Range(lib) :
           Head(Get(it["path"])) = "/" =>
               PrependSlash(str_slice(Get(it["path"]), 1)) = Get(it["path"])
    /\ \A r \in Range(cl.df_common) :
           /\ Head(Get(r.data["Location"])) = "/"
           /\ \E t \in Range(xml) : Tail(Get(r.data["Location"])) = Get(t["Location"])
    /\ (cmd = "export" /\ pc = "done" /\ outxml # NULL) =>
           \A track \in Range(Get(outxml)) :
               \E it \in Range(lib) : <<"/">> \o track.location = Get(it["path"])

\* an export with --missing has loaded a track of the xml file and written
\* a track of the catalog
C26_Witness ==
    /\ cmd = "export" /\ pc = "done" /\ missing
    /\ cl.df_common # <<>>
    /\ outxml # NULL /\ Get(outxml) # <<>>

----------------------------------------------------------------------------
(* The rows get_export_df selects (SpecExport)                             *)

\* the join keys of the catalog rows the command loaded, row by row
CatalogKeys == Map(LAMBDA it : NormalizeLower(Get(it["path"])), items(lib, query))

\* C29: export row selection: with a row filter (--missing) get_export_df
\* returns one row for each only_beets key and no other row; without a filter
\* it returns one row for each catalog row, in their order; the index of a
\* row is the join key of its catalog row
C29_ExportRows ==
    Projected =>
        LET rows == Get(df_export).rows
        IN  IF missing
            THEN /\ Len(rows) = Cardinality(cl.only_beets)
                 /\ \A key \in cl.only_beets :
                        \E n \in 1..Len(rows) : rows[n].index = key
                 /\ \A n \in 1..Len(rows) :
                        rows[n].index \in cl.only_beets \cap Range(CatalogKeys)
            ELSE /\ Len(rows) = Len(CatalogKeys)
                 /\ \A n \in 1..Len(rows) : rows[n].index = CatalogKeys[n]

====
